---- MODULE Spec2Model ----
(***************************************************************************)
(* Model of the UserOperation send pipeline of the ui-sdk:                 *)
(*   ERC4337EthersSigner.sendTransaction / sendBatchTransaction,           *)
(*   ContractDeployer.deploy, BaseAccountAPI.createSigned(Batch)UserOp,    *)
(*   HttpRpcClient (chain-id check, gas estimation, submission).           *)
(* One public call is in flight at a time; the chain-id response, the      *)
(* signer's answer and the account's deployment are environment events     *)
(* that interleave with the steps of the call.  A step runs from one       *)
(* suspension point (await) of the code to the next.                       *)
(***************************************************************************)
EXTENDS Integers, Sequences, FiniteSets, TLC

\* ------------------------------------------------------------------ bounds
\* longest batch array a request may carry
MaxBatch == 3
\* longest callData (in bytes) of an operation whose gas is calculated
MaxCallDataLen == 512
\* most calls made directly on one resolver instance
MaxCalls == 3
\* longest r or s (in bytes) of a DER signature
MaxIntLen == 2
\* longest raw public-key coordinate (in bytes) an attestation may carry
MaxCoordLen == 33
\* sends that may be in flight on one builder instance
MaxSends == 2

\* ------------------------------------------------------------ value domains
Null == "null"            \* JavaScript null / undefined (both satisfy `== null`)
EmptyStr == ""            \* the empty string
Addr == "0xA"             \* a well-formed address
AccountAddr == "0xACC"    \* the smart account's address
FactoryAddr == "0xFAC"    \* the account factory's address

\* chain ids the provider may be configured with / the bundler may report;
\* 0 stands for a reply parseInt turns into a number no chain uses (NaN)
ChainIds == {1}
ChainReplies == {0, 1}

\* gas limits a caller may supply
GasVals == {0, 1}
\* callGasLimit values the bundler may estimate (distinct from every supplied value)
BundlerGasVals == {7}

\* error messages an RPC may fail with
RpcMessages == {"AA21"}

\* a caller-supplied gasLimit: absent, null, a JS number or a BigNumber object
GasLimitInputs ==
    {[t |-> "undef", v |-> 0], [t |-> "null", v |-> 0]}
    \cup [t : {"num", "big"}, v : GasVals]

\* JavaScript truthiness of a gasLimit value: a BigNumber is an object (always
\* truthy), a number is truthy unless it is 0
Truthy(g) == g.t = "big" \/ (g.t = "num" /\ g.v # 0)

\* `g !== undefined && g !== null`
NotNullish(g) == g.t \notin {"undef", "null"}

SeqsUpTo(S, n) == UNION {[1..k -> S] : k \in 0..n}

\* ------------------------------------------------------------------- state
VARIABLES
    chainId,        \* HttpRpcClient.chainId: the configured chain id
    initializing,   \* HttpRpcClient.initializing: "pending" | "resolved" | "rejected"
    bundlerChain,   \* the eth_chainId reply: [kind: "none"|"value"|"error", id]
    initError,      \* the error `initializing` rejected with
    accountAddress, \* BaseAccountAPI.accountAddress (pre-configured) or Null
    factoryAddress, \* SimpleAccountAPI.factoryAddress or Null
    senderAddress,  \* BaseAccountAPI.senderAddress (cached) or Null
    isPhantom,      \* BaseAccountAPI.isPhantom
    deployed,       \* whether the chain holds code at the account address
    op,             \* the public call in flight (or the last one completed)
    rcall,          \* a direct call of the account-state resolver and its counters
    fn,             \* a pure function applied to an input: [name, in, out]
    sends           \* sends on one builder: the account's on-chain nonce, each
                    \* send's position and nonce, the bundler's pool

vars == <<chainId, initializing, bundlerChain, initError, accountAddress,
          factoryAddress, senderAddress, isPhantom, deployed, op, rcall, fn,
          sends>>

auxVars == <<rcall, fn, sends>>

clientVars == <<chainId, initializing, bundlerChain, initError>>
configVars == <<accountAddress, factoryAddress>>
resolverVars == <<senderAddress, isPhantom>>

\* a thrown value: an Error instance with a message, or some other value
NoError == [isError |-> FALSE, message |-> ""]
ErrorOf(m) == [isError |-> TRUE, message |-> m]
RpcErrors == {ErrorOf(m) : m \in RpcMessages} \cup {NoError}

\* the completion of a public call
NoResult == [status |-> "none", kind |-> "", reason |-> ""]
Ok == [status |-> "ok", kind |-> "", reason |-> ""]
Failure(k, r) == [status |-> "error", kind |-> k, reason |-> r]

\* what estimateUserOpGas has returned (done = FALSE: not returned yet)
NoEstimation ==
    [done |-> FALSE, threw |-> FALSE, success |-> FALSE, callGasLimit |-> 0,
     preVerificationGas |-> 0, verificationGas |-> 0, maxFeePerGas |-> 0,
     maxPriorityFeePerGas |-> 0, error |-> ""]

NoRequest ==
    [targets |-> <<>>, datas |-> <<>>, values |-> <<>>,
     gasLimit |-> [t |-> "undef", v |-> 0], bytecode |-> ""]

IdleOp ==
    [pc |-> "idle", kind |-> "none", req |-> NoRequest,
     details |-> NoRequest,
     chainCalls |-> 0, estRpc |-> 0, sendRpc |-> 0, signCalls |-> 0,
     trace |-> <<>>, queued |-> FALSE, estimation |-> NoEstimation,
     built |-> FALSE, callGasLimit |-> 0, initCode |-> "0x", nonce |-> "none",
     sig |-> "none", sentSig |-> "none", submit |-> "none",
     result |-> NoResult]

NewOp(kind, req) == [IdleOp EXCEPT !.pc = "start", !.kind = kind, !.req = req]

Idle == op.pc = "idle"

\* no direct resolver call made yet
NoReturn == [kind |-> "none", val |-> <<>>]
IdleRes ==
    [pc |-> "idle", call |-> "none", owner |-> "eoa", calls |-> 0,
     oracleQueries |-> 0, getCodeQueries |-> 0, returned |-> {},
     clearedAtStart |-> FALSE, netFailed |-> FALSE, ret |-> NoReturn]

\* no send made yet; overlapped records that the send was in flight together
\* with another one
IdleSends ==
    [accountNonce |-> 0, pool |-> <<>>,
     proc |-> [s \in 1..MaxSends |->
                 [pc |-> "idle", nonce |-> 0 - 1, overlapped |-> FALSE]]]

\* no function applied yet
NoFn == [name |-> "none", in |-> <<>>, out |-> <<>>]

Init ==
    /\ chainId \in ChainIds
    /\ initializing = "pending"
    /\ bundlerChain = [kind |-> "none", id |-> 0]
    /\ initError = NoError
    /\ accountAddress \in {Null, AccountAddr}
    /\ factoryAddress \in {Null, FactoryAddr}
    /\ senderAddress = Null
    /\ isPhantom = TRUE
    /\ deployed \in BOOLEAN
    /\ op = IdleOp
    /\ rcall = IdleRes
    /\ fn = NoFn
    /\ sends = IdleSends

\* ------------------------------------------------------------ HttpRpcClient
\* validateChainId: `parseInt(chain) !== this.chainId` throws
ChainIdMatches(reply, configured) == reply = configured

ChainMismatch == ErrorOf("chainMismatch")

\* the eth_chainId reply (or its failure) settles `initializing`
ValidateChainIdResponse ==
    /\ initializing = "pending"
    /\ \/ \E id \in ChainReplies :
            /\ bundlerChain' = [kind |-> "value", id |-> id]
            /\ IF ChainIdMatches(id, chainId)
                 THEN initializing' = "resolved" /\ initError' = initError
                 ELSE initializing' = "rejected" /\ initError' = ChainMismatch
       \/ \E e \in RpcErrors :
            /\ bundlerChain' = [kind |-> "error", id |-> 0]
            /\ initializing' = "rejected"
            /\ initError' = e
    /\ UNCHANGED <<auxVars, chainId, configVars, resolverVars, deployed, op>>

\* `await this.initializing`: "wait" while pending, "ok" once resolved,
\* "throw" once rejected
AwaitInitializing_bypassed(state) == "ok"

AwaitInitializing(state) ==
    CASE state = "pending" -> "wait"
      [] state = "resolved" -> "ok"
      [] OTHER -> "throw"

\* `error instanceof Error ? error.message : 'Unknown error'`
ErrorMessage(e) == IF e.isError THEN e.message ELSE "Unknown error"

\* the failure result of estimateUserOpGas's catch block
FailureResult(e) ==
    [done |-> TRUE, threw |-> FALSE, success |-> FALSE, callGasLimit |-> 0,
     preVerificationGas |-> 0, verificationGas |-> 0, maxFeePerGas |-> 0,
     maxPriorityFeePerGas |-> 0, error |-> ErrorMessage(e)]

\* `{ ...result, success: true }`
SuccessResult(r) ==
    [done |-> TRUE, threw |-> FALSE, success |-> TRUE,
     callGasLimit |-> r.callGasLimit,
     preVerificationGas |-> r.preVerificationGas,
     verificationGas |-> r.verificationGas,
     maxFeePerGas |-> r.maxFeePerGas,
     maxPriorityFeePerGas |-> r.maxPriorityFeePerGas, error |-> ""]

\* an error that leaves estimateUserOpGas uncaught
Thrown(e) == [NoEstimation EXCEPT !.done = TRUE, !.threw = TRUE,
                                  !.error = ErrorMessage(e)]

\* estimateUserOpGas when `await this.initializing` rejects with e: the await
\* is inside the try block, so the catch turns e into a failure result
EstimateInitRejected_uncaught(e) == Thrown(e)

EstimateInitRejected(e) == FailureResult(e)

\* estimateUserOpGas when the eth_estimateUserOperationGas RPC rejects with e
EstimateRpcRejected(e) == FailureResult(e)

\* replies the bundler may give to eth_estimateUserOperationGas
BundlerEstimates ==
    [callGasLimit : BundlerGasVals, preVerificationGas : {1},
     verificationGas : {1}, maxFeePerGas : {1}, maxPriorityFeePerGas : {1}]

\* ------------------------------------------------------- request validation
\* verifyAllNecessaryFields: the message it throws, "" when it passes
\* (a single request carries its to / data / value as one-entry arrays)
VerifyAllNecessaryFields(req) ==
    IF req.targets[1] = Null THEN "Missing call target"
    ELSE IF req.datas[1] = Null /\ req.values[1] = Null
           THEN "Missing call data or value"
    ELSE ""

\* verifyAllNecessaryBatchFields: the message it throws, "" when it passes;
\* `target == null` holds of null and undefined, not of the empty string
VerifyAllNecessaryBatchFields(req) ==
    IF Len(req.targets) = 0 THEN "Empty batch request"
    ELSE IF \/ Len(req.targets) # Len(req.datas)
            \/ Len(req.targets) # Len(req.values)
           THEN "Batch arrays must have the same length"
    ELSE IF \E i \in 1..Len(req.targets) : req.targets[i] = Null
           THEN "Missing call target in batch"
    ELSE ""

\* the length check that opens encodeBatchUserOpCallDataAndGasLimit
BatchLengthsDiffer_valuesonly(d) == Len(d.targets) # Len(d.values)

BatchLengthsDiffer(d) ==
    \/ Len(d.targets) # Len(d.values)
    \/ Len(d.targets) # Len(d.datas)

\* ContractDeployer._getBytecode / _validateBytecode on raw bytecode:
\* `!bytecode || !bytecode.startsWith('0x')`
StartsWith0x(s) == s \in {"0x", "0x1234"}
BytecodeInvalid_emptyonly(b) == b = EmptyStr
BytecodeInvalid(b) == b = EmptyStr \/ ~StartsWith0x(b)

\* `d || '0x'`
ConvertData(d) == IF d \in {Null, EmptyStr} THEN "0x" ELSE d
\* `BigNumber.from(v || 0)`
ConvertValue(v) == IF v \in {Null, EmptyStr, "0"} THEN "0" ELSE v

\* what sendTransaction passes on: `...(isGasLimitExplicit && { gasLimit: tx.gasLimit })`
SingleDetailsGasLimit(g) ==
    IF NotNullish(g) THEN g ELSE [t |-> "undef", v |-> 0]

\* what sendBatchTransaction passes on:
\* `batchRequest.gasLimit ? BigNumber.from(batchRequest.gasLimit) : undefined`
BatchDetailsGasLimit(g) ==
    IF Truthy(g) THEN [t |-> "big", v |-> g.v] ELSE [t |-> "undef", v |-> 0]

\* what deploy passes on: `...(options?.gasLimit && { gasLimit: options.gasLimit })`
DeployDetailsGasLimit(g) ==
    IF Truthy(g) THEN g ELSE [t |-> "undef", v |-> 0]

\* `if (detailsForUserOp.gasLimit)`: the builder takes the caller's limit
UsesProvidedGasLimit(d) == Truthy(d.gasLimit)

Finish(o, res) == [o EXCEPT !.pc = "done", !.result = res]

\* requests a caller may make
SingleRequests ==
    [targets : {<<Addr>>, <<Null>>}, datas : {<<"0xab">>, <<Null>>},
     values : {<<"1">>, <<Null>>}, gasLimit : GasLimitInputs,
     bytecode : {""}]

\* (the datas and values arrays are up to one entry shorter or longer than targets)
NearLengths(n) == {k \in 0..MaxBatch : k - n \in {-1, 0, 1}}

BatchRequests ==
    {r \in [targets : SeqsUpTo({Addr, EmptyStr, Null}, MaxBatch),
            datas : SeqsUpTo({"0xab"}, MaxBatch),
            values : SeqsUpTo({"0"}, MaxBatch),
            gasLimit : GasLimitInputs, bytecode : {""}] :
        /\ Len(r.datas) \in NearLengths(Len(r.targets))
        /\ Len(r.values) \in NearLengths(Len(r.targets))}

DeployRequests ==
    [targets : {<<Addr>>}, datas : {<<"0xab">>}, values : {<<"0">>},
     gasLimit : GasLimitInputs, bytecode : {"", "1234", "0x1234"}]

\* ------------------------------------------------------------- entry points
\* ERC4337EthersSigner.sendTransaction is called: populateTransaction starts
StartSendTransaction ==
    /\ Idle
    /\ \E req \in SingleRequests :
         op' = [NewOp("single", req) EXCEPT !.pc = "populate"]
    /\ UNCHANGED <<auxVars, clientVars, configVars, resolverVars, deployed>>

\* ERC4337EthersSigner.sendBatchTransaction up to its first network await:
\* verifyAllNecessaryBatchFields, the conversions, then createSignedBatchUserOp
\* -> encodeBatchUserOpCallDataAndGasLimit's own length check
StartSendBatchTransaction ==
    /\ Idle
    /\ \E req \in BatchRequests :
         LET o == NewOp("batch", req)
             msg == VerifyAllNecessaryBatchFields(req)
             d == [req EXCEPT
                     !.datas = [i \in 1..Len(req.datas) |-> ConvertData(req.datas[i])],
                     !.values = [i \in 1..Len(req.values) |-> ConvertValue(req.values[i])],
                     !.gasLimit = BatchDetailsGasLimit(req.gasLimit)]
         IN op' = IF msg # "" THEN Finish(o, Failure("validation", msg))
                  ELSE IF BatchLengthsDiffer(d)
                         THEN Finish(o, Failure("validation",
                                "Batch operation arrays must have the same length"))
                  ELSE [o EXCEPT !.pc = "encode", !.details = d]
    /\ UNCHANGED <<auxVars, clientVars, configVars, resolverVars, deployed>>

\* BaseAccountAPI.createSignedBatchUserOp called directly, up to its first
\* network await: encodeBatchUserOpCallDataAndGasLimit's length check
StartCreateSignedBatchUserOp ==
    /\ Idle
    /\ \E req \in BatchRequests :
         LET o == NewOp("batchApi", req)
         IN op' = IF BatchLengthsDiffer(req)
                    THEN Finish(o, Failure("validation",
                           "Batch operation arrays must have the same length"))
                  ELSE [o EXCEPT !.pc = "encode", !.details = req]
    /\ UNCHANGED <<auxVars, clientVars, configVars, resolverVars, deployed>>

\* ContractDeployer.deploy up to its first network await: _getBytecode,
\* _validateBytecode, the deploy(bytecode, salt) call data, createSignedUserOp
StartDeploy ==
    /\ Idle
    /\ \E req \in DeployRequests :
         LET o == NewOp("deploy", req)
         IN op' = IF BytecodeInvalid(req.bytecode)
                    THEN Finish(o, Failure("INVALID_BYTECODE", "Invalid bytecode format"))
                  ELSE [o EXCEPT !.pc = "encode",
                          !.details = [req EXCEPT
                             !.gasLimit = DeployDetailsGasLimit(req.gasLimit)]]
    /\ UNCHANGED <<auxVars, clientVars, configVars, resolverVars, deployed>>

\* ------------------------------------------------- building the operation
Called(o, n) == [o EXCEPT !.chainCalls = @ + n]
Logged(o, e) == [o EXCEPT !.trace = Append(@, e)]

\* provider queries ethers' Signer.populateTransaction makes for a request:
\* the nonce (getTransactionCount) and, when no gasLimit is given, estimateGas
PopulateQueries(req) == 1 + (IF NotNullish(req.gasLimit) THEN 0 ELSE 1)

\* sendTransaction from `await this.populateTransaction(transaction)` on:
\* the populated request is verified, then handed to createSignedUserOp
PopulateTransaction ==
    /\ op.pc = "populate"
    /\ \E ok \in BOOLEAN :
         LET o == Called(op, PopulateQueries(op.req))
             msg == VerifyAllNecessaryFields(op.req)
             d == [op.req EXCEPT
                     !.datas = <<IF op.req.datas[1] = Null THEN EmptyStr
                                 ELSE op.req.datas[1]>>,
                     !.gasLimit = SingleDetailsGasLimit(op.req.gasLimit)]
         IN op' = IF ~ok THEN Finish(o, Failure("populate", "provider"))
                  ELSE IF msg # "" THEN Finish(o, Failure("validation", msg))
                  ELSE [o EXCEPT !.pc = "encode", !.details = d]
    /\ UNCHANGED <<auxVars, clientVars, configVars, resolverVars, deployed>>

\* the ABI coder rejects a target that is no address and call data that is
\* no hex string
Encodable(d) ==
    /\ \A i \in 1..Len(d.targets) : d.targets[i] = Addr
    /\ \A i \in 1..Len(d.datas) : d.datas[i] \notin {EmptyStr, Null}

\* getAccountAddress: how the sender address gets resolved
\*   "cached" | "configured" | "nofactory" | "oracle"
AddressSource_uncached ==
    IF accountAddress # Null THEN "configured"
    ELSE IF factoryAddress = Null THEN "nofactory"
    ELSE "oracle"

AddressSource ==
    IF senderAddress # Null THEN "cached"
    ELSE IF accountAddress # Null THEN "configured"
    ELSE IF factoryAddress = Null THEN "nofactory"
    ELSE "oracle"

\* encodeExecute / encodeExecuteBatch (resolving the account address first),
\* then the branch on the caller's gas limit
EncodeCall ==
    /\ op.pc = "encode"
    /\ \E ok \in BOOLEAN :
         /\ ok \/ AddressSource = "oracle"
         /\ LET src == AddressSource
                o == Called(op, IF src = "oracle" THEN 1 ELSE 0)
            IN IF src = "nofactory"
                 THEN /\ op' = Finish(o, Failure("config", "No factory to get initCode"))
                      /\ UNCHANGED senderAddress
               ELSE IF ~ok
                 THEN /\ op' = Finish(o, Failure("network", "getSenderAddress"))
                      /\ UNCHANGED senderAddress
               ELSE /\ senderAddress' =
                         (CASE src = "cached" -> senderAddress
                            [] src = "configured" -> accountAddress
                            [] OTHER -> AccountAddr)
                    /\ op' = IF ~Encodable(op.details)
                               THEN Finish(o, Failure("encode", "invalid argument"))
                             ELSE IF UsesProvidedGasLimit(op.details)
                               THEN [Logged(o, "gasSkipped") EXCEPT
                                       !.pc = "fillInitCode",
                                       !.callGasLimit = op.details.gasLimit.v]
                             ELSE [o EXCEPT !.pc = "prepInitCode"]
    /\ UNCHANGED <<auxVars, clientVars, configVars, isPhantom, deployed>>

\* checkAccountPhantom: getCode is queried only while the flag is set, and
\* code at the address clears the flag
PhantomQueries_always == IF isPhantom THEN 1 ELSE 1

PhantomQueries == IF isPhantom THEN 1 ELSE 0
PhantomAfterCheck == IF isPhantom /\ deployed THEN FALSE ELSE isPhantom

\* getInitCode: checkAccountPhantom, then getAccountInitCode while phantom
GetInitCode(next, record) ==
    \E ok \in BOOLEAN :
      /\ ok \/ PhantomQueries > 0
      /\ LET o == Called(op, PhantomQueries)
         IN IF ~ok
              THEN /\ op' = Finish(o, Failure("network", "getCode"))
                   /\ UNCHANGED isPhantom
            ELSE /\ isPhantom' = PhantomAfterCheck
                 /\ op' = IF PhantomAfterCheck /\ factoryAddress = Null
                            THEN Finish(o, Failure("config", "No factory to get initCode"))
                          ELSE [o EXCEPT !.pc = next,
                                  !.initCode = IF record /\ PhantomAfterCheck
                                                 THEN "init" ELSE @]

\* getNonce: checkAccountPhantom, then the account contract's getNonce once
\* the account is deployed; `good` is the call in flight once the nonce is read
NonceQueries == PhantomQueries + (IF PhantomAfterCheck THEN 0 ELSE 1)

GetNonce(good) ==
    \E out \in {"ok", "getCodeFails", "getNonceFails"} :
      /\ out = "getCodeFails" => isPhantom
      /\ out = "getNonceFails" => ~PhantomAfterCheck
      /\ IF out = "getCodeFails"
           THEN /\ op' = Finish(Called(op, 1), Failure("network", "getCode"))
                /\ UNCHANGED isPhantom
         ELSE /\ isPhantom' = PhantomAfterCheck
              /\ op' = IF out = "getNonceFails"
                         THEN Finish(Called(op, NonceQueries),
                                     Failure("network", "getNonce"))
                       ELSE Called(good, NonceQueries)

\* encodeUserOpCallDataAndGasLimit: `const initCode = await this.getInitCode()`
PrepInitCode ==
    /\ op.pc = "prepInitCode"
    /\ GetInitCode("prepNonce", FALSE)
    /\ UNCHANGED <<auxVars, clientVars, configVars, senderAddress, deployed>>

\* encodeUserOpCallDataAndGasLimit: `nonce: await this.getNonce()`, then
\* estimateUserOpGas is entered and waits for `initializing`
PrepNonce ==
    /\ op.pc = "prepNonce"
    /\ GetNonce([op EXCEPT !.pc = "estAwaitInit",
                           !.queued = (initializing = "pending")])
    /\ UNCHANGED <<auxVars, clientVars, configVars, senderAddress, deployed>>

\* `if (!bundlerEstimation.success) throw new Error(bundlerEstimation.error ?? ...)`
EstimationFailed_ignored(est) == FALSE

EstimationFailed(est) == ~est.success

\* the builder after estimateUserOpGas has returned `est` (or thrown)
AfterEstimation(o, est) ==
    LET e == [o EXCEPT !.estimation = est]
    IN IF est.threw THEN Finish(e, Failure("estimation", est.error))
       ELSE IF EstimationFailed(est)
         THEN Finish(e, Failure("estimation", est.error))
       ELSE [Logged(e, "gasEstimated") EXCEPT
               !.pc = "fillInitCode", !.callGasLimit = est.callGasLimit]

\* estimateUserOpGas past `await this.initializing`: the estimation RPC is
\* issued, or the rejected chain-id check ends the estimation
EstimateAwaitInit ==
    /\ op.pc = "estAwaitInit"
    /\ AwaitInitializing(initializing) # "wait"
    /\ op' = IF AwaitInitializing(initializing) = "ok"
               THEN [Logged(op, "estimateRPC") EXCEPT
                       !.pc = "estimating", !.estRpc = @ + 1]
             ELSE AfterEstimation(op, EstimateInitRejected(initError))
    /\ UNCHANGED <<auxVars, clientVars, configVars, resolverVars, deployed>>

\* the bundler answers eth_estimateUserOperationGas
EstimateResponse ==
    /\ op.pc = "estimating"
    /\ \/ \E r \in BundlerEstimates : op' = AfterEstimation(op, SuccessResult(r))
       \/ \E e \in RpcErrors : op' = AfterEstimation(op, EstimateRpcRejected(e))
    /\ UNCHANGED <<auxVars, clientVars, configVars, resolverVars, deployed>>

\* createUnsignedUserOp: `const initCode = await this.getInitCode()`
FillInitCode ==
    /\ op.pc = "fillInitCode"
    /\ GetInitCode("fillGas", TRUE)
    /\ UNCHANGED <<auxVars, clientVars, configVars, senderAddress, deployed>>

\* createUnsignedUserOp: estimateCreationGas (a provider estimateGas unless
\* initCode is '0x') and provider.getFeeData()
FillGasAndFees ==
    /\ op.pc = "fillGas"
    /\ \E ok \in BOOLEAN :
         LET o == Called(op, (IF op.initCode = "0x" THEN 0 ELSE 1) + 1)
         IN op' = IF ok THEN [o EXCEPT !.pc = "fillNonce"]
                  ELSE Finish(o, Failure("network", "gas"))
    /\ UNCHANGED <<auxVars, clientVars, configVars, resolverVars, deployed>>

\* createUnsignedUserOp: `nonce: info.nonce ?? this.getNonce()`; the unsigned
\* operation is complete once the nonce is read
FillNonce ==
    /\ op.pc = "fillNonce"
    /\ GetNonce([op EXCEPT !.pc = "sign", !.built = TRUE,
                           !.nonce = IF PhantomAfterCheck THEN "zero" ELSE "chain"])
    /\ UNCHANGED <<auxVars, clientVars, configVars, senderAddress, deployed>>

\* signUserOp: getUserOpHash, then signUserOpHash is invoked and its promise
\* put in the operation; createSigned(Batch)UserOp returns that operation
SignUserOp ==
    /\ op.pc = "sign"
    /\ LET o == [Logged(op, "signInvoked") EXCEPT
                   !.signCalls = @ + 1, !.sig = "pending"]
       IN op' = IF op.kind = "batchApi" THEN Finish(o, Ok)
                ELSE [o EXCEPT !.pc = "constructResp"]
    /\ UNCHANGED <<auxVars, clientVars, configVars, resolverVars, deployed>>

\* signatures the owner may produce
SigVals == {"sigA", "sigB"}

\* the owner settles the signature promise
SignerReturns ==
    /\ op.sig = "pending"
    /\ \/ \E s \in SigVals : op' = [Logged(op, "signReturned") EXCEPT !.sig = s]
       \/ op' = [Logged(op, "signRejected") EXCEPT !.sig = "rejected"]
    /\ UNCHANGED <<auxVars, clientVars, configVars, resolverVars, deployed>>

\* ---------------------------------------------------------------- submission
\* ERC4337EthersProvider.constructUserOpTransactionResponse (an external
\* collaborator: it may throw).  deploy() then calls sendUserOpToBundler without
\* awaiting it and returns the transaction hash at once; sendTransaction and
\* sendBatchTransaction await the submission.
ConstructResponse ==
    /\ op.pc = "constructResp"
    /\ \E ok \in BOOLEAN :
         op' = IF ~ok THEN Finish(op, Failure("response", "constructResponse"))
               ELSE IF op.kind = "deploy"
                 THEN [op EXCEPT !.pc = "sendAwaitInit", !.result = Ok,
                                 !.queued = @ \/ initializing = "pending"]
               ELSE [op EXCEPT !.pc = "sendAwaitInit",
                               !.queued = @ \/ initializing = "pending"]
    /\ UNCHANGED <<auxVars, clientVars, configVars, resolverVars, deployed>>

\* unwrapError of an error that carries no `body`: the error itself
UnwrapError(e) == ErrorMessage(e)

\* sendUserOpToBundler rejects before any RPC is issued: the caller of
\* sendTransaction / sendBatchTransaction gets the error, deploy's floating
\* promise is dropped
SubmissionAborted(o, e) ==
    IF o.kind = "deploy" THEN [o EXCEPT !.pc = "done", !.submit = "aborted"]
    ELSE Finish([o EXCEPT !.submit = "aborted"], Failure("submission", UnwrapError(e)))

\* the eth_sendUserOperation RPC rejects with e
OnSendRpcFailure_resend(o, e) ==
    [o EXCEPT !.pc = "sendAwaitInit", !.submit = "failed"]

OnSendRpcFailure(o, e) ==
    IF o.kind = "deploy" THEN [o EXCEPT !.pc = "done", !.submit = "failed"]
    ELSE Finish([o EXCEPT !.submit = "failed"], Failure("submission", UnwrapError(e)))

\* the eth_sendUserOperation RPC resolves with the operation hash
OnSendRpcSuccess(o) ==
    IF o.kind = "deploy" THEN [o EXCEPT !.pc = "done", !.submit = "ok"]
    ELSE Finish([o EXCEPT !.submit = "ok"], Ok)

\* sendUserOpToBundler: `await this.initializing`
SendAwaitInit ==
    /\ op.pc = "sendAwaitInit"
    /\ AwaitInitializing(initializing) # "wait"
    /\ op' = IF AwaitInitializing(initializing) = "ok"
               THEN [op EXCEPT !.pc = "sendAwaitSig"]
             ELSE SubmissionAborted(op, initError)
    /\ UNCHANGED <<auxVars, clientVars, configVars, resolverVars, deployed>>

\* `await resolveProperties(userOp1)`: whether the signature promise has settled
SignatureSettled_unawaited(sig) == TRUE

SignatureSettled(sig) == sig # "pending"

\* sendUserOpToBundler: resolveProperties awaits the signature promise, then
\* eth_sendUserOperation is issued with the resolved operation
SendAwaitSig ==
    /\ op.pc = "sendAwaitSig"
    /\ SignatureSettled(op.sig)
    /\ op' = IF op.sig = "rejected"
               THEN SubmissionAborted(op, ErrorOf("signing"))
             ELSE [Logged(op, "sendRPC") EXCEPT
                     !.pc = "sending", !.sendRpc = @ + 1,
                     !.sentSig = op.sig, !.submit = "inflight"]
    /\ UNCHANGED <<auxVars, clientVars, configVars, resolverVars, deployed>>

\* the bundler answers eth_sendUserOperation
SendResponse ==
    /\ op.pc = "sending"
    /\ \/ op' = OnSendRpcSuccess(op)
       \/ \E e \in RpcErrors : op' = OnSendRpcFailure(op, e)
    /\ UNCHANGED <<auxVars, clientVars, configVars, resolverVars, deployed>>

\* ------------------------------------------------------- other operations
\* BaseAccountAPI.init: getAccountAddress resolves and caches the address
ApiInit ==
    /\ Idle
    /\ AddressSource \in {"configured", "oracle"}
    /\ senderAddress' = IF AddressSource = "configured" THEN accountAddress
                        ELSE AccountAddr
    /\ UNCHANGED <<auxVars, clientVars, configVars, isPhantom, deployed, op>>

\* the caller has taken the completed call's outcome; the next call may start
CallReturns ==
    /\ op.pc = "done"
    /\ op.sig # "pending"
    /\ op' = IdleOp
    /\ UNCHANGED <<auxVars, clientVars, configVars, resolverVars, deployed>>

\* the account contract gets deployed on-chain
AccountDeployed ==
    /\ ~deployed
    /\ deployed' = TRUE
    /\ UNCHANGED <<auxVars, clientVars, configVars, resolverVars, op>>

Next ==
    \/ ValidateChainIdResponse
    \/ StartSendTransaction
    \/ StartSendBatchTransaction
    \/ StartCreateSignedBatchUserOp
    \/ StartDeploy
    \/ PopulateTransaction
    \/ EncodeCall
    \/ PrepInitCode
    \/ PrepNonce
    \/ EstimateAwaitInit
    \/ EstimateResponse
    \/ FillInitCode
    \/ FillGasAndFees
    \/ FillNonce
    \/ SignUserOp
    \/ SignerReturns
    \/ ConstructResponse
    \/ SendAwaitInit
    \/ SendAwaitSig
    \/ SendResponse
    \/ ApiInit
    \/ CallReturns
    \/ AccountDeployed

Spec == Init /\ [][Next]_vars

\* ------------------------------------------------------------ pure functions
\* The functions below do no I/O; FnSpec draws an input for one of them from a
\* bounded set and applies the function, recording the output in `fn`.
FnPipelineIdle ==
    /\ chainId = 1
    /\ initializing = "pending"
    /\ bundlerChain = [kind |-> "none", id |-> 0]
    /\ initError = NoError
    /\ accountAddress = Null
    /\ factoryAddress = Null
    /\ senderAddress = Null
    /\ isPhantom = TRUE
    /\ deployed = FALSE
    /\ op = IdleOp
    /\ rcall = IdleRes
    /\ sends = IdleSends

\* an input drawn for the function `name`, not yet applied
Input(name, in) == [name |-> name, in |-> in, out |-> <<>>]

Applied(name, out) ==
    /\ fn.name = name
    /\ fn.out = <<>>
    /\ fn' = [fn EXCEPT !.out = out]
    /\ UNCHANGED <<clientVars, configVars, resolverVars, deployed, op, rcall, sends>>

SignatureModes == {"EOA", "PASSKEY"}

\* SignatureSizes: the dummy signature's byte length per mode
SignatureSizes(mode) == IF mode = "PASSKEY" THEN 536 ELSE 65

\* getVerificationGasLimit
GetVerificationGasLimit(mode) == IF mode = "PASSKEY" THEN 500000 ELSE 100000

\* byte length of the hex strings the builder writes into a signature field
HexByteLength(h) == IF h \in {"0x", ""} THEN 0 ELSE (Len(h) - 2) \div 2

\* the partialOp that encodeUserOpCallDataAndGasLimit and
\* encodeBatchUserOpCallDataAndGasLimit hand to estimateUserOpGas (the gas and
\* signature fields; `path` is "single" or "batch", the two literals are alike)
EstimationPartialOp(mode, path) ==
    [callGasLimit |-> 0,
     verificationGasLimit |-> GetVerificationGasLimit(mode),
     maxFeePerGas |-> 0,
     maxPriorityFeePerGas |-> 0,
     signatureLength |-> HexByteLength("0x")]

EstimationInputs ==
    {Input("estimationPartialOp", [mode |-> mode, path |-> path]) :
        mode \in SignatureModes, path \in {"single", "batch"}}

ApplyEstimationPartialOp ==
    Applied("estimationPartialOp", EstimationPartialOp(fn.in.mode, fn.in.path))

\* ---- calcPreVerificationGas
\* DefaultGasOverheads
DefaultGasOverheads ==
    [fixed |-> 21000, perUserOp |-> 26000, perUserOpWord |-> 4, zeroByte |-> 4,
     nonZeroByte |-> 16, bundleSize |-> 1, signatureMode |-> "EOA"]

\* `{ ...DefaultGasOverheads, ...(overheads ?? {}) }` for the overrides a caller
\* may pass: none, the passkey mode, a larger bundle, no fixed overheads, a byte
\* cost above 255, zero bytes dearer than non-zero bytes.  Overheads are
\* natural numbers and the expected bundle size is at least one.
OverheadConfigs ==
    {DefaultGasOverheads,
     [DefaultGasOverheads EXCEPT !.signatureMode = "PASSKEY"],
     [DefaultGasOverheads EXCEPT !.bundleSize = 3],
     [DefaultGasOverheads EXCEPT !.fixed = 0, !.perUserOp = 0],
     [DefaultGasOverheads EXCEPT !.nonZeroByte = 260],
     [DefaultGasOverheads EXCEPT !.zeroByte = 20]}

\* the bundler minimum the result is clamped to
MinPreVerificationGas == 49024

\* the preVerificationGas the packed operation carries when the caller gave none
PlaceholderPreVerificationGas == 21000

\* a byte string, by its length and the number of its non-zero bytes
Bytes(n, z) == [len |-> n, nonZero |-> z]

\* `hexlify(Buffer.alloc(sigSize, 1))`: sigSize bytes, each 0x01
DummySignature(mode) == Bytes(SignatureSizes(mode), SignatureSizes(mode))

RECURSIVE NonZeroBytes(_)
\* number of non-zero bytes in the big-endian 32-byte word of v
NonZeroBytes(v) ==
    IF v = 0 THEN 0
    ELSE (IF v % 256 # 0 THEN 1 ELSE 0) + NonZeroBytes(v \div 256)

\* a dynamic `bytes` value is padded with zero bytes to whole 32-byte words
Pad32(n) == ((n + 31) \div 32) * 32

\* packUserOp(p, false): the ABI encoding of the operation's eleven fields:
\* eleven head words (a static value, or the offset of a dynamic field's tail),
\* then for initCode, callData, paymasterAndData and signature a length word
\* and the padded bytes.  The result: its length and its non-zero byte count.
PackUserOp(p) ==
    LET o1 == 11 * 32
        o2 == o1 + 32 + Pad32(p.initCode.len)
        o3 == o2 + 32 + Pad32(p.callData.len)
        o4 == o3 + 32 + Pad32(p.paymasterAndData.len)
        total == o4 + 32 + Pad32(p.signature.len)
        words == <<p.nonce, o1, o2, p.callGasLimit, p.verificationGasLimit,
                   p.preVerificationGas, p.maxFeePerGas, p.maxPriorityFeePerGas,
                   o3, o4, p.initCode.len, p.callData.len,
                   p.paymasterAndData.len, p.signature.len>>
        dyn == <<p.initCode, p.callData, p.paymasterAndData, p.signature>>
        Sum[i \in 0..14] ==
            IF i = 0 THEN 0 ELSE Sum[i - 1] + NonZeroBytes(words[i])
        SumDyn[i \in 0..4] ==
            IF i = 0 THEN 0 ELSE SumDyn[i - 1] + dyn[i].nonZero
    IN Bytes(total, p.senderNonZero + Sum[14] + SumDyn[4])

\* `{ preVerificationGas: 21000, signature: <dummy>, ...userOp }`
WithDummySignature(userOp, ov) ==
    [senderNonZero |-> userOp.senderNonZero, nonce |-> userOp.nonce,
     initCode |-> userOp.initCode, callData |-> userOp.callData,
     callGasLimit |-> userOp.callGasLimit,
     verificationGasLimit |-> userOp.verificationGasLimit,
     preVerificationGas |-> PlaceholderPreVerificationGas,
     maxFeePerGas |-> userOp.maxFeePerGas,
     maxPriorityFeePerGas |-> userOp.maxPriorityFeePerGas,
     paymasterAndData |-> userOp.paymasterAndData,
     signature |-> DummySignature(ov.signatureMode)]

\* `packed.map(x => x === 0 ? ov.zeroByte : ov.nonZeroByte)`: packed is a
\* Uint8Array, so is the mapped array, and each cost is stored modulo 256
ByteCost_swapped(byteIsZero, ov) ==
    (IF byteIsZero THEN ov.nonZeroByte ELSE ov.zeroByte) % 256

ByteCost(byteIsZero, ov) ==
    (IF byteIsZero THEN ov.zeroByte ELSE ov.nonZeroByte) % 256

\* `.reduce((sum, x) => sum + x)` over the mapped bytes
CallDataCost_none(packed, ov) == 0 * packed.len

CallDataCost(packed, ov) ==
    ByteCost(TRUE, ov) * (packed.len - packed.nonZero)
    + ByteCost(FALSE, ov) * packed.nonZero

\* Math.round(n / d) for n >= 0, d > 0
Round(n, d) == (2 * n + d) \div (2 * d)

\* `ret`: callDataCost + fixed / bundleSize + perUserOp
\*        + perUserOpWord * ((packed.length + 31) / 32), rounded; the divisions
\* are floating-point divisions, computed here over the denominator 32 * bundleSize
ComputedCost(packed, ov) ==
    LET d == 32 * ov.bundleSize
        n == (CallDataCost(packed, ov) + ov.perUserOp) * d
             + ov.fixed * 32
             + ov.perUserOpWord * (packed.len + 31) * ov.bundleSize
    IN Round(n, d)

\* `Math.max(ret, 49024)`
ClampToMinimum_unclamped(ret) == ret

ClampToMinimum(ret) ==
    IF ret > MinPreVerificationGas THEN ret ELSE MinPreVerificationGas

\* calcPreVerificationGas(userOp, overheads)
CalcPreVerificationGas(userOp, ov) ==
    ClampToMinimum(ComputedCost(PackUserOp(WithDummySignature(userOp, ov)), ov))

\* callData values: any length up to the bound, all bytes zero or all non-zero
CallDatas == UNION {{Bytes(n, 0), Bytes(n, n)} : n \in 0..MaxCallDataLen}

\* filled operations (without signature and preVerificationGas)
UserOps ==
    [senderNonZero : {20}, nonce : {0, 1}, initCode : {Bytes(0, 0)},
     callData : CallDatas, callGasLimit : {100000},
     verificationGasLimit : {100000}, maxFeePerGas : {0},
     maxPriorityFeePerGas : {0}, paymasterAndData : {Bytes(0, 0)}]

\* bytes appended to a callData
Extensions == {Bytes(1, 0), Bytes(1, 1), Bytes(32, 0), Bytes(32, 32)}

Extend(userOp, ext) ==
    [userOp EXCEPT !.callData = Bytes(@.len + ext.len, @.nonZero + ext.nonZero)]

CalcOutcome(userOp, ov) ==
    LET packed == PackUserOp(WithDummySignature(userOp, ov))
    IN [packed |-> packed, cost |-> ComputedCost(packed, ov),
        result |-> CalcPreVerificationGas(userOp, ov)]

\* ---- getPreVerificationGas
\* getSignatureMode: PASSKEY for an owner with a public-key coordinate pair
GetSignatureMode_eoa(owner) == "EOA"

GetSignatureMode(owner) == IF owner = "passkey" THEN "PASSKEY" ELSE "EOA"

\* the `signature` field of the operation handed in: absent, or some bytes
SuppliedSignatures ==
    {[present |-> FALSE, bytes |-> Bytes(0, 0)],
     [present |-> TRUE, bytes |-> Bytes(66, 66)],
     [present |-> TRUE, bytes |-> Bytes(0, 0)]}

\* `{ preVerificationGas: 21000, signature: <dummy>, ...userOp }` for an
\* operation that may carry a signature: the spread comes last
SpreadUserOp(userOp, supplied, ov) ==
    [WithDummySignature(userOp, ov) EXCEPT
       !.signature = IF supplied.present THEN supplied.bytes ELSE @]

\* getPreVerificationGas: calcPreVerificationGas under
\* `{ ...this.overheads, signatureMode }`
GetPreVerificationGas(owner, userOp, supplied, overheads) ==
    LET ov == [overheads EXCEPT !.signatureMode = GetSignatureMode(owner)]
        p == SpreadUserOp(userOp, supplied, ov)
    IN [signatureLength |-> p.signature.len,
        result |-> ClampToMinimum(ComputedCost(PackUserOp(p), ov))]

CalcInputs ==
    {Input("calcPreVerificationGas", [userOp |-> userOp, ov |-> ov]) :
        userOp \in UserOps, ov \in OverheadConfigs}

ApplyCalcPreVerificationGas ==
    Applied("calcPreVerificationGas", CalcOutcome(fn.in.userOp, fn.in.ov))

\* calcPreVerificationGas applied to an operation and to the same operation
\* with a longer callData
CalcTwiceInputs ==
    {Input("calcPreVerificationGasTwice",
           [userOp |-> userOp, ext |-> ext, ov |-> ov]) :
        userOp \in UserOps, ext \in Extensions, ov \in OverheadConfigs}

ApplyCalcToExtension ==
    Applied("calcPreVerificationGasTwice",
            [short |-> CalcOutcome(fn.in.userOp, fn.in.ov),
             long |-> CalcOutcome(Extend(fn.in.userOp, fn.in.ext), fn.in.ov)])

\* ------------------------------------------------------------- unwrapError
\* A message is a sequence of text pieces; the pieces "FailedOp", "(", ")"
\* and "," are the characters unwrapError's test, regular expression and
\* split look at.
Undefined == <<"undefined">>
FailedOp3 == <<"FailedOp", "(", "0", ",", "0xPM", ",", "AA33 reverted", ")">>
FailedOp2 == <<"FailedOp", "(", "0", ",", "AA21 didn't pay prefund", ")">>
RelayMessages ==
    {FailedOp3, FailedOp2,
     <<"rpc error">>,
     <<"FailedOp", " without arguments">>,
     <<"reverted: ">> \o FailedOp3 \o <<" (code 1", ")">>}

\* errors sendUserOpToBundler may reject with: `body` is absent, is not
\* JSON, or is JSON whose error.message is a message or is missing
ErrorBodies ==
    {[kind |-> "none", message |-> Undefined],
     [kind |-> "notJson", message |-> Undefined],
     [kind |-> "json", message |-> Undefined]}
    \cup {[kind |-> "json", message |-> m] : m \in RelayMessages}
SubmissionErrors ==
    {[message |-> m, body |-> b] : m \in {<<"bad response">>, FailedOp2},
                                   b \in ErrorBodies}

Positions(m, piece) == {i \in 1..Len(m) : m[i] = piece}
Min(S) == CHOOSE x \in S : \A y \in S : x <= y
Max(S) == CHOOSE x \in S : \A y \in S : x >= y

\* failedOpMessage.includes('FailedOp')
IncludesFailedOp(m) == m # Undefined /\ Positions(m, "FailedOp") # {}

\* failedOpMessage.match(/FailedOp\((.*)\)/): the leftmost "FailedOp(" that a
\* ")" follows, the group running to the last ")"
MatchStarts(m) ==
    {i \in Positions(m, "FailedOp") :
        /\ i + 1 \in Positions(m, "(")
        /\ \E j \in Positions(m, ")") : j > i + 1}
Matched(m) == MatchStarts(m) # {}
MatchGroup(m) ==
    SubSeq(m, Min(MatchStarts(m)) + 2, Max(Positions(m, ")")) - 1)

\* matched[1].split(','): the pieces between commas
RECURSIVE Split(_)
Split(g) ==
    IF Positions(g, ",") = {} THEN <<g>>
    ELSE LET c == Min(Positions(g, ","))
         IN <<SubSeq(g, 1, c - 1)>> \o Split(SubSeq(g, c + 1, Len(g)))

\* split[i] inside a template literal
Part(split, i) == IF i <= Len(split) THEN split[i] ELSE Undefined

HasBody_never(errorIn) == FALSE

HasBody(errorIn) == errorIn.body.kind # "none"

BundlerFailurePrefix ==
    <<"The bundler has failed to include UserOperation in a batch: ">>

\* unwrapError
UnwrapErrorOf(errorIn) ==
    IF ~HasBody(errorIn)
      THEN [outcome |-> "returned", object |-> "errorIn",
            message |-> errorIn.message]
    ELSE IF errorIn.body.kind = "notJson"
      THEN [outcome |-> "threw", object |-> "new",
            message |-> <<"SyntaxError">>]
    ELSE LET m == errorIn.body.message
             extract == IncludesFailedOp(m) /\ Matched(m)
             split == IF extract THEN Split(MatchGroup(m)) ELSE <<>>
             paymasterInfo ==
                 IF extract
                   THEN <<"(paymaster address: ">> \o Part(split, 2) \o <<")">>
                   ELSE <<>>
             failedOpMessage == IF extract THEN Part(split, 3) ELSE m
         IN [outcome |-> "returned", object |-> "new",
             message |-> BundlerFailurePrefix \o failedOpMessage \o <<" ">>
                         \o paymasterInfo \o <<")">>]

UnwrapInputs == {Input("unwrapError", e) : e \in SubmissionErrors}

ApplyUnwrapError == Applied("unwrapError", UnwrapErrorOf(fn.in))

\* ------------------------------------------------------- parseDerSignature
\* A byte array is a sequence of numbers 0..255; offsets are zero-based as in
\* the source.  Reading past the end gives `undefined`.
SequenceTag == 48
IntegerTag == 2
UndefinedByte == 0 - 1

\* derSignature[offset]
At(bytes, offset) ==
    IF offset >= 0 /\ offset < Len(bytes) THEN bytes[offset + 1]
    ELSE UndefinedByte

\* derSignature.slice(from, to)
Slice(bytes, from, to) ==
    LET end == IF to < Len(bytes) THEN to ELSE Len(bytes)
    IN IF from >= end THEN <<>> ELSE SubSeq(bytes, from + 1, end)

\* `x[0] === 0x00`
LeadingZero_always(x) == Len(x) > 0

LeadingZero(x) == At(x, 0) = 0

StripLeadingZero(x) == IF LeadingZero(x) THEN Slice(x, 1, Len(x)) ELSE x

DerFailure(message) == [ok |-> FALSE, error |-> message, r |-> <<>>, s |-> <<>>]

\* parseDerSignature.  An `undefined` rLength makes the offset NaN, so the s
\* marker read is undefined; an `undefined` sLength makes s the empty slice.
ParseDerSignature(der) ==
    IF At(der, 0) # SequenceTag THEN DerFailure("Invalid signature format")
    ELSE IF At(der, 1) = UndefinedByte \/ At(der, 1) + 2 # Len(der)
      THEN DerFailure("Invalid signature length")
    ELSE IF At(der, 2) # IntegerTag THEN DerFailure("Invalid r marker")
    ELSE LET rLength == At(der, 3)
             r == Slice(der, 4, 4 + rLength)
             sMarker == 4 + rLength
         IN IF rLength = UndefinedByte \/ At(der, sMarker) # IntegerTag
              THEN DerFailure("Invalid s marker")
            ELSE LET sLength == At(der, sMarker + 1)
                     s == IF sLength = UndefinedByte THEN <<>>
                          ELSE Slice(der, sMarker + 2, sMarker + 2 + sLength)
                 IN [ok |-> TRUE, error |-> "",
                     r |-> StripLeadingZero(r), s |-> StripLeadingZero(s)]

\* the DER encoding of a signature: SEQUENCE { INTEGER r, INTEGER s }
EncodeDer(r, s) ==
    <<SequenceTag, Len(r) + Len(s) + 4, IntegerTag, Len(r)>> \o r
    \o <<IntegerTag, Len(s)>> \o s

\* integer bytes an authenticator may encode: a low byte, a byte with the
\* top bit set, a zero byte
DerIntegers == UNION {[1..n -> {0, 1, 128}] : n \in 1..MaxIntLen}

\* byte arrays that are no DER signature, made from one that is
Damaged(der) ==
    {<<>>,
     [der EXCEPT ![1] = SequenceTag + 1],
     [der EXCEPT ![2] = @ + 1],
     [der EXCEPT ![3] = IntegerTag + 1],
     [der EXCEPT ![4] = @ + 1],
     [SubSeq(der, 1, Len(der) - 1) EXCEPT ![2] = @ - 1],
     [der \o <<1>> EXCEPT ![2] = @ + 1],
     SubSeq(der, 1, Len(der) - 2)}

DerArrays ==
    UNION {{EncodeDer(r, s)} \cup Damaged(EncodeDer(r, s)) :
             r \in DerIntegers, s \in DerIntegers}

\* ------------------------------------------------- passkey signMessage
\* clientDataJSON as a sequence of text pieces; the two pieces signMessage
\* searches for are the challenge property of the message being signed and
\* the response type
ChallengeProperty == "\"challenge\":\"<base64url of the challenge>\""
ResponseType == "\"type\":\"webauthn.get\""
ClientDatas ==
    {<<"{", ResponseType, ",", ChallengeProperty, ",", "\"origin\":..", "}">>,
     <<"{", ChallengeProperty, ",", ResponseType, "}">>,
     <<"{", ResponseType, ",", "\"challenge\":\"<another challenge>\"", "}">>,
     <<"{", "\"type\":\"webauthn.create\"", ",", ChallengeProperty, "}">>}

\* what navigator.credentials.get does: rejects, resolves with null, or
\* resolves with an assertion
Assertions ==
    {[outcome |-> o, der |-> <<>>, clientData |-> <<>>] :
        o \in {"rejected", "null"}}
    \cup {[outcome |-> "returned", der |-> der, clientData |-> c] :
            der \in DerArrays, c \in ClientDatas}

\* clientDataString.indexOf(piece)
IndexOf(text, piece) ==
    IF Positions(text, piece) = {} THEN 0 - 1
    ELSE Min(Positions(text, piece)) - 1

\* signMessage: any exception inside the try block becomes
\* 'Passkey signMessage failed.'  BigNumber.from rejects an empty byte array
\* and the ABI coder rejects a negative uint256.
SignMessage(assertion) ==
    LET parsed == ParseDerSignature(assertion.der)
        challengeLocation == IndexOf(assertion.clientData, ChallengeProperty)
        responseTypeLocation == IndexOf(assertion.clientData, ResponseType)
        failed == [ok |-> FALSE, error |-> "Passkey signMessage failed."]
    IN IF assertion.outcome # "returned" THEN failed
       ELSE IF ~parsed.ok THEN failed
       ELSE IF parsed.r = <<>> \/ parsed.s = <<>> THEN failed
       ELSE IF challengeLocation < 0 \/ responseTypeLocation < 0 THEN failed
       ELSE [ok |-> TRUE, r |-> parsed.r, s |-> parsed.s,
             challengeLocation |-> challengeLocation,
             responseTypeLocation |-> responseTypeLocation]

\* ---------------------------------------------------- WebAuthnPublicKey
\* What fromAttetationObject reads from the decoded attestation object: the
\* flags byte of authData (undefined when authData is too short) and the
\* entries -2 and -3 of the COSE key map, each a byte string or absent.
Coordinates ==
    {[present |-> FALSE, bytes |-> <<>>]}
    \cup {[present |-> TRUE, bytes |-> [i \in 1..n |-> b]] :
            n \in {0, 1, 31, 32, MaxCoordLen}, b \in {0, 7}}
    \cup {[present |-> TRUE, bytes |-> [i \in 1..n |-> i]] : n \in {31, 32}}
AttestationObjects ==
    [flags : {UndefinedByte, 0, 1, 64, 69, 197},
     x : Coordinates, y : Coordinates]

\* `(flags & 0x40) !== 0`
AttestedCredentialDataFlag(flags) ==
    flags # UndefinedByte /\ (flags \div 64) % 2 = 1

\* the constructor: a coordinate shorter than 32 bytes is left-padded with zeros
LeftPad(bytes) ==
    IF Len(bytes) < 32 THEN [i \in 1..(32 - Len(bytes)) |-> 0] \o bytes
    ELSE bytes

\* fromAttetationObject
FromAttestationObject(att) ==
    IF ~AttestedCredentialDataFlag(att.flags)
      THEN [ok |-> FALSE, error |-> "Attested credential data flag is missing."]
    ELSE IF ~att.x.present \/ ~att.y.present
      THEN [ok |-> FALSE, error |-> "Public key coordinates are missing."]
    ELSE [ok |-> TRUE, x |-> LeftPad(att.x.bytes), y |-> LeftPad(att.y.bytes)]

\* ---------------------------------------------------- ContractDeployer
\* Each public method is taken whole: what it is called with and how the
\* network answers go in, the calls it makes (in order) and its completion
\* come out.
DefaultSalt == "0x0000000000000000000000000000000000000000000000000000000000000001"

\* `salt: string = DEFAULT_SALT`: the default applies to an omitted salt
SaltOrDefault_omitted(salt) == salt
SaltOrDefault(salt) == IF salt = "undefined" THEN DefaultSalt ELSE salt

\* the arguments of a call, and in env the answers of the network: getNetwork,
\* getCode(deployer), the two computeAddress static calls, the account API
DeployerArgs ==
    [bytecode : {"", "1234", "0x", "0x1234"},
     salt : {"undefined", DefaultSalt,
             "0x0000000000000000000000000000000000000000000000000000000000000002"},
     env : [network : {"ok", "error"}, code : {"0x", "0x6080", "error"},
            smokeTest : {"ok", "revert"}, computeAddress : {"ok", "revert"},
            accountApi : {"ok", "error"}]]

DeployerCall(name, args) == [call |-> name, args |-> args]
\* callStatic.computeAddress(keccak256(bytecode), salt, deployContractAddress)
ComputeAddress(bytecode, salt) ==
    DeployerCall("computeAddress", <<"keccak256", bytecode, salt, Addr>>)

\* _verifyContract: the calls it makes and the error it throws, if any
VerifyContract_codeunchecked(env) ==
    IF env.network = "error"
      THEN [calls |-> <<DeployerCall("getNetwork", <<>>)>>,
            error |-> Failure("Error", "network")]
    ELSE IF env.code = "error"
      THEN [calls |-> <<DeployerCall("getNetwork", <<>>),
                        DeployerCall("getCode", <<Addr>>)>>,
            error |-> Failure("Error", "network")]
    ELSE [calls |-> <<DeployerCall("getNetwork", <<>>),
                      DeployerCall("getCode", <<Addr>>),
                      ComputeAddress("0x1234", DefaultSalt)>>,
          error |-> IF env.smokeTest = "ok" THEN NoResult
                    ELSE Failure("INVALID_DEPLOYER", "does not match expected interface")]
VerifyContract(env) ==
    IF env.network = "error"
      THEN [calls |-> <<DeployerCall("getNetwork", <<>>)>>,
            error |-> Failure("Error", "network")]
    ELSE IF env.code = "error"
      THEN [calls |-> <<DeployerCall("getNetwork", <<>>),
                        DeployerCall("getCode", <<Addr>>)>>,
            error |-> Failure("Error", "network")]
    ELSE IF env.code = "0x"
      THEN [calls |-> <<DeployerCall("getNetwork", <<>>),
                        DeployerCall("getCode", <<Addr>>)>>,
            error |-> Failure("INVALID_DEPLOYER", "No contract found")]
    ELSE [calls |-> <<DeployerCall("getNetwork", <<>>),
                      DeployerCall("getCode", <<Addr>>),
                      ComputeAddress("0x1234", DefaultSalt)>>,
          error |-> IF env.smokeTest = "ok" THEN NoResult
                    ELSE Failure("INVALID_DEPLOYER", "does not match expected interface")]

\* predictAddress; a returned address is the one the deployer computes for
\* the arguments of the last call
PredictAddress(a) ==
    LET salt == SaltOrDefault(a.salt)
        v == VerifyContract(a.env)
    IN IF BytecodeInvalid(a.bytecode)
         THEN [calls |-> <<>>, userOps |-> 0,
               result |-> Failure("INVALID_BYTECODE", "Invalid bytecode format")]
       ELSE IF v.error # NoResult
         THEN [calls |-> v.calls, userOps |-> 0, result |-> v.error]
       ELSE [calls |-> v.calls \o <<DeployerCall("getNetwork", <<>>),
                                    ComputeAddress(a.bytecode, salt)>>,
             userOps |-> 0,
             result |-> IF a.env.computeAddress = "ok" THEN Ok
                        ELSE Failure("Error", "call reverted")]

\* deploy (method = "createSignedUserOp") and estimateGas (method =
\* "encodeUserOpCallDataAndGasLimit"): validation, the deploy call data, the
\* account API's method on it; deploy then hands the operation to the bundler
DeployOrEstimate(method, a) ==
    LET \* interface.encodeFunctionData('deploy', [bytecode, salt])
        deployData == <<"deploy", a.bytecode, SaltOrDefault(a.salt)>>
        details == <<Addr, deployData, "0">>
    IN IF BytecodeInvalid(a.bytecode)
         THEN [calls |-> <<>>, userOps |-> 0,
               result |-> Failure("INVALID_BYTECODE", "Invalid bytecode format")]
       ELSE IF a.env.accountApi = "error"
         THEN [calls |-> <<DeployerCall(method, details)>>, userOps |-> 0,
               result |-> Failure("Error", "account API")]
       ELSE IF method = "createSignedUserOp"
         THEN [calls |-> <<DeployerCall(method, details),
                           DeployerCall("constructUserOpTransactionResponse", <<>>),
                           DeployerCall("sendUserOpToBundler", <<>>)>>,
               userOps |-> 1, result |-> Ok]
       ELSE [calls |-> <<DeployerCall(method, details)>>, userOps |-> 0,
             result |-> Ok]

\* ------------------------------------------------------- signUserOpHash
\* The byte length of what signUserOpHash returns for an owner whose
\* signMessage returns signedMessage bytes: hexConcat of the 1-byte version,
\* in the multi-wallet account API also the 2-byte wallet id, and the
\* signed message. An EOA owner's signMessage returns r, s, v: 65 bytes.
SignUserOpHash(api, owner, signedMessage) ==
    [version |-> IF owner = "passkey" THEN 1 ELSE 0,
     length |-> 1 + (IF api = "multiWallet" THEN 2 ELSE 0) + signedMessage]

\* arguments of the further functions
MoreInputs ==
    {Input("getPreVerificationGas",
           [owner |-> owner, userOp |-> userOp, supplied |-> supplied,
            overheads |-> overheads]) :
        owner \in {"eoa", "passkey"},
        userOp \in {u \in UserOps : u.callData.len \in {0, 4, 68}},
        supplied \in SuppliedSignatures, overheads \in OverheadConfigs}
    \cup {Input("parseDerSignature", der) : der \in DerArrays}
    \cup {Input("signMessage", a) : a \in Assertions}
    \cup {Input("fromAttetationObject", a) : a \in AttestationObjects}
    \cup {Input("signUserOpHash", [api |-> a, owner |-> "eoa", signedMessage |-> 65]) :
            a \in {"simple", "multiWallet"}}
    \cup {Input(m, a) : m \in {"predictAddress", "deploy", "estimateGas"},
                        a \in DeployerArgs}

FnInit ==
    /\ FnPipelineIdle
    /\ fn \in EstimationInputs \cup CalcInputs \cup CalcTwiceInputs
              \cup UnwrapInputs \cup MoreInputs

FnNext ==
    \/ ApplyEstimationPartialOp
    \/ ApplyCalcPreVerificationGas
    \/ ApplyCalcToExtension
    \/ ApplyUnwrapError
    \/ Applied("getPreVerificationGas",
               GetPreVerificationGas(fn.in.owner, fn.in.userOp,
                                     fn.in.supplied, fn.in.overheads))
    \/ Applied("parseDerSignature", ParseDerSignature(fn.in))
    \/ Applied("signMessage", SignMessage(fn.in))
    \/ Applied("fromAttetationObject", FromAttestationObject(fn.in))
    \/ Applied("signUserOpHash",
               SignUserOpHash(fn.in.api, fn.in.owner, fn.in.signedMessage))
    \/ Applied("predictAddress", PredictAddress(fn.in))
    \/ Applied("deploy", DeployOrEstimate("createSignedUserOp", fn.in))
    \/ Applied("estimateGas",
               DeployOrEstimate("encodeUserOpCallDataAndGasLimit", fn.in))

FnSpec == FnInit /\ [][FnNext]_vars



\* ------------------------------------------------------ account state calls
\* Calls made directly on one BaseAccountAPI instance, one at a time:
\* getAccountAddress, checkAccountPhantom and getInitCode.  `rcall` follows
\* the call in progress and counts the provider queries issued so far.
ResolverCalls == {"getAccountAddress", "checkAccountPhantom", "getInitCode"}
OwnerKinds == {"eoa", "passkey"}
\* addresses the entry point's getSenderAddress may report
OracleAnswers == {AccountAddr, Addr}

ResolvedWith(v) == [kind |-> "value", val |-> v]
RejectedWith(kind, message) == [kind |-> "error", val |-> <<kind, message>>]
\* '0x': the hex string of no bytes
EmptyHex == <<>>

ResolverInit ==
    /\ chainId = 1
    /\ initializing = "pending"
    /\ bundlerChain = [kind |-> "none", id |-> 0]
    /\ initError = NoError
    /\ accountAddress \in {Null, AccountAddr}
    /\ factoryAddress \in {Null, FactoryAddr}
    /\ senderAddress = Null
    /\ isPhantom = TRUE
    /\ deployed \in BOOLEAN
    /\ op = IdleOp
    /\ \E owner \in OwnerKinds : rcall = [IdleRes EXCEPT !.owner = owner]
    /\ fn = NoFn
    /\ sends = IdleSends

\* the call completes: its promise resolves with a value or rejects
Complete(r, ret) ==
    [r EXCEPT !.pc = "idle", !.ret = ret,
              !.returned = IF r.call = "getAccountAddress" /\ ret.kind = "value"
                             THEN @ \cup {ret.val[1]} ELSE @]

StartResolverCall ==
    /\ rcall.pc = "idle"
    /\ rcall.calls < MaxCalls
    /\ \E c \in ResolverCalls :
         rcall' = [rcall EXCEPT
                     !.call = c, !.calls = @ + 1, !.ret = NoReturn,
                     !.clearedAtStart = ~isPhantom, !.netFailed = FALSE,
                     !.pc = IF c = "getAccountAddress" THEN "resolve"
                            ELSE "check"]
    /\ UNCHANGED <<fn, sends, clientVars, configVars, resolverVars, deployed, op>>

\* createAccount's arguments: owner address and zeroed key for an EOA owner,
\* zero address and the key's coordinates for a passkey owner
CreateAccountParams_owneronly(owner) ==
    <<"ownerAddress", "HashZero", "HashZero", "index">>

CreateAccountParams(owner) ==
    IF owner = "passkey"
      THEN <<"AddressZero", "publicKey.x", "publicKey.y", "index">>
      ELSE <<"ownerAddress", "HashZero", "HashZero", "index">>

\* getAccountInitCode
AccountInitCode(owner) ==
    IF factoryAddress = Null
      THEN RejectedWith("config", "No factory to get initCode")
      ELSE ResolvedWith(<<factoryAddress, "createAccount">>
                    \o CreateAccountParams(owner))

\* what the call does once checkAccountPhantom has answered `phantom`
AfterPhantomCheck(r, phantom) ==
    IF r.call = "checkAccountPhantom"
      THEN Complete(r, ResolvedWith(<<IF phantom THEN "true" ELSE "false">>))
    ELSE IF phantom THEN Complete(r, AccountInitCode(r.owner))
    ELSE Complete(r, ResolvedWith(EmptyHex))

\* checkAccountPhantom's first test: a cleared flag is returned at once
CheckPhantomStep ==
    /\ rcall.pc = "check"
    /\ rcall' = IF PhantomQueries > 0
                  THEN [rcall EXCEPT !.pc = "resolve"]
                  ELSE AfterPhantomCheck(rcall, isPhantom)
    /\ UNCHANGED <<fn, sends, clientVars, configVars, resolverVars, deployed, op>>

\* what the call does once getAccountAddress has answered `a`
AfterAddress(r, a) ==
    IF r.call = "getAccountAddress" THEN Complete(r, ResolvedWith(<<a>>))
    ELSE [r EXCEPT !.pc = "getCode", !.getCodeQueries = @ + 1]

\* getAccountAddress, up to the oracle query of getCounterFactualAddress
ResolveAddressStep ==
    /\ rcall.pc = "resolve"
    /\ LET src == AddressSource
       IN CASE src = "cached" ->
                 /\ rcall' = AfterAddress(rcall, senderAddress)
                 /\ UNCHANGED senderAddress
            [] src = "configured" ->
                 /\ senderAddress' = accountAddress
                 /\ rcall' = AfterAddress(rcall, accountAddress)
            [] src = "nofactory" ->
                 /\ rcall' = Complete(rcall, AccountInitCode(rcall.owner))
                 /\ UNCHANGED senderAddress
            [] OTHER ->
                 /\ rcall' = [rcall EXCEPT !.pc = "oracle",
                                           !.oracleQueries = @ + 1]
                 /\ UNCHANGED senderAddress
    /\ UNCHANGED <<fn, sends, clientVars, configVars, isPhantom, deployed, op>>

\* getSenderAddress reverts with the sender (errorArgs.sender), or the call
\* fails without errorArgs and the error is rethrown
OracleResponds ==
    /\ rcall.pc = "oracle"
    /\ \/ \E a \in OracleAnswers :
            /\ senderAddress' = a
            /\ rcall' = AfterAddress(rcall, a)
       \/ /\ rcall' = Complete([rcall EXCEPT !.netFailed = TRUE],
                               RejectedWith("network", "getSenderAddress"))
          /\ UNCHANGED senderAddress
    /\ UNCHANGED <<fn, sends, clientVars, configVars, isPhantom, deployed, op>>

\* provider.getCode answers: code at the address clears the flag
GetCodeResponds ==
    /\ rcall.pc = "getCode"
    /\ \/ /\ isPhantom' = PhantomAfterCheck
          /\ rcall' = AfterPhantomCheck(rcall, PhantomAfterCheck)
       \/ /\ rcall' = Complete([rcall EXCEPT !.netFailed = TRUE],
                               RejectedWith("network", "getCode"))
          /\ UNCHANGED isPhantom
    /\ UNCHANGED <<fn, sends, clientVars, configVars, senderAddress, deployed, op>>

ResolverNext ==
    \/ StartResolverCall
    \/ CheckPhantomStep
    \/ ResolveAddressStep
    \/ OracleResponds
    \/ GetCodeResponds
    \/ AccountDeployed

ResolverSpec == ResolverInit /\ [][ResolverNext]_vars

\* ------------------------------------------------------ concurrent sends
\* Several sends in flight on one builder instance and one sender. Each send
\* builds its operation (the nonce is read by getNonce), then hands it to the
\* bundler; the bundler includes pooled operations on-chain.
SendsInit ==
    /\ chainId = 1
    /\ initializing = "pending"
    /\ bundlerChain = [kind |-> "none", id |-> 0]
    /\ initError = NoError
    /\ accountAddress = AccountAddr
    /\ factoryAddress = FactoryAddr
    /\ senderAddress = Null
    /\ isPhantom = TRUE
    /\ deployed \in BOOLEAN
    /\ op = IdleOp
    /\ rcall = IdleRes
    /\ fn = NoFn
    /\ sends = IdleSends

InFlight(s) == sends.proc[s].pc \in {"fillNonce", "send"}

\* a caller starts a send: createSignedUserOp up to `this.getNonce()`
StartSend(s) ==
    /\ sends.proc[s].pc = "idle"
    /\ sends' = [sends EXCEPT !.proc =
          [t \in 1..MaxSends |->
             IF t = s
               THEN [pc |-> "fillNonce", nonce |-> 0 - 1,
                     overlapped |-> \E u \in 1..MaxSends : u # s /\ InFlight(u)]
             ELSE IF InFlight(t) THEN [sends.proc[t] EXCEPT !.overlapped = TRUE]
             ELSE sends.proc[t]]]
    /\ UNCHANGED <<rcall, fn, clientVars, configVars, resolverVars, deployed, op>>

\* getNonce: 0 for a phantom account, else the account contract's getNonce()
AccountNonceRead_reserved ==
    IF PhantomAfterCheck THEN 0
    ELSE sends.accountNonce
         + Cardinality({t \in 1..MaxSends :
                          /\ sends.proc[t].pc \in {"send", "submitted"}
                          /\ sends.proc[t].nonce >= sends.accountNonce})
AccountNonceRead ==
    IF PhantomAfterCheck THEN 0 ELSE sends.accountNonce

\* the send's getNonce query is answered (or fails) and the operation is signed
ReadNonce(s) ==
    /\ sends.proc[s].pc = "fillNonce"
    /\ \E ok \in BOOLEAN :
         IF ok
           THEN /\ isPhantom' = PhantomAfterCheck
                /\ sends' = [sends EXCEPT !.proc[s].pc = "send",
                                          !.proc[s].nonce = AccountNonceRead]
         ELSE /\ sends' = [sends EXCEPT !.proc[s].pc = "failed"]
              /\ UNCHANGED isPhantom
    /\ UNCHANGED <<rcall, fn, clientVars, configVars, senderAddress, deployed, op>>

\* sendUserOpToBundler: the bundler receives the operation
SubmitUserOp(s) ==
    /\ sends.proc[s].pc = "send"
    /\ sends' = [sends EXCEPT !.proc[s].pc = "submitted",
                              !.pool = Append(@, sends.proc[s].nonce)]
    /\ UNCHANGED <<rcall, fn, clientVars, configVars, resolverVars, deployed, op>>

\* the bundler takes the oldest pooled operation: the EntryPoint executes it
\* when its nonce is the account's current nonce (deploying a phantom
\* account) and rejects it otherwise
IncludeOperation ==
    /\ sends.pool # <<>>
    /\ LET valid == Head(sends.pool) = sends.accountNonce
       IN /\ sends' = [sends EXCEPT !.pool = Tail(@),
                          !.accountNonce = IF valid THEN @ + 1 ELSE @]
          /\ deployed' = (deployed \/ valid)
    /\ UNCHANGED <<rcall, fn, clientVars, configVars, resolverVars, op>>

SendsNext ==
    \/ \E s \in 1..MaxSends : StartSend(s)
    \/ \E s \in 1..MaxSends : ReadNonce(s)
    \/ \E s \in 1..MaxSends : SubmitUserOp(s)
    \/ IncludeOperation
    \/ AccountDeployed

SendsSpec == SendsInit /\ [][SendsNext]_vars

\* ===================================================================== claims
Events == {"gasSkipped", "estimateRPC", "gasEstimated", "signInvoked",
           "signReturned", "signRejected", "sendRPC"}

\* position of the first occurrence of event e in the call's trace, 0 if none
Pos(e) ==
    IF \E i \in 1..Len(op.trace) : op.trace[i] = e
      THEN CHOOSE i \in 1..Len(op.trace) :
             /\ op.trace[i] = e
             /\ \A j \in 1..(i - 1) : op.trace[j] # e
    ELSE 0

Count(e) == Cardinality({i \in 1..Len(op.trace) : op.trace[i] = e})

Before(a, b) == Pos(a) > 0 /\ Pos(a) < Pos(b)

NoNetworkAccess == op.chainCalls = 0 /\ op.estRpc = 0 /\ op.sendRpc = 0

ReqLengthsDiffer(req) ==
    Len(req.targets) # Len(req.datas) \/ Len(req.targets) # Len(req.values)

\* C1: once the bundler's gas estimation has returned a failure result for a
\* call, the call has failed with the bundler's reason, the signer has not been
\* invoked for it and no eth_sendUserOperation has been issued for it.
C1_EstimationFailureStopsBuild ==
    (op.estimation.done /\ ~op.estimation.success) =>
        /\ op.pc = "done"
        /\ op.result = Failure("estimation", op.estimation.error)
        /\ op.signCalls = 0
        /\ op.sig = "none"
        /\ Pos("signInvoked") = 0
        /\ op.sendRpc = 0
        /\ Pos("sendRPC") = 0

C1_Witness ==
    /\ op.estimation.done
    /\ ~op.estimation.success
    /\ op.estimation.error = "AA21"
    /\ op.estRpc = 1
    /\ op.result = Failure("estimation", "AA21")

\* C2: a batch request whose targets, values and datas arrays differ in length
\* has failed validation, in sendBatchTransaction and in
\* encodeBatchUserOpCallDataAndGasLimit alike, with no chain query and no
\* bundler RPC issued for it.
C2_MismatchedBatchFailsBeforeNetwork ==
    (op.kind \in {"batch", "batchApi"} /\ ReqLengthsDiffer(op.req)) =>
        /\ op.pc = "done"
        /\ op.result.status = "error"
        /\ op.result.kind = "validation"
        /\ NoNetworkAccess

C2_Witness ==
    /\ op.kind = "batchApi"
    /\ Len(op.req.targets) = 2
    /\ Len(op.req.values) = 2
    /\ Len(op.req.datas) = 3
    /\ op.result.kind = "validation"

\* C3: a batch of three equal-length entries with one target empty or missing
\* (null, undefined or the empty string) issues no network call and fails with
\* a validation error.
C3_EmptyTargetFailsValidation ==
    (/\ op.kind = "batch"
     /\ Len(op.req.targets) = 3
     /\ ~ReqLengthsDiffer(op.req)
     /\ \E i \in 1..3 : op.req.targets[i] \in {Null, EmptyStr}) =>
        /\ NoNetworkAccess
        /\ op.pc = "done" => (op.result.status = "error" /\ op.result.kind = "validation")

\* C4: a sendTransaction request with a missing call target, or with neither
\* call data nor value, makes no network access (none while populating the
\* transaction either) and fails with a validation error.
C4_SingleValidationBeforeNetwork ==
    (/\ op.kind = "single"
     /\ \/ op.req.targets[1] = Null
        \/ (op.req.datas[1] = Null /\ op.req.values[1] = Null)) =>
        /\ NoNetworkAccess
        /\ op.pc = "done" => (op.result.status = "error" /\ op.result.kind = "validation")

\* C5: every step that issues eth_estimateUserOperationGas or
\* eth_sendUserOperation is taken with the eth_chainId reply received and
\* equal to the configured chain id (so none is issued while the check is
\* pending or after it failed).
C5_RpcOnlyAfterChainIdCheck ==
    [][(op'.estRpc > op.estRpc \/ op'.sendRpc > op.sendRpc) =>
         /\ initializing = "resolved"
         /\ bundlerChain.kind = "value"
         /\ bundlerChain.id = chainId]_vars

C5_Witness ==
    /\ op.queued
    /\ op.estRpc = 1
    /\ op.sendRpc = 1
    /\ initializing = "resolved"

\* C6: estimateUserOpGas never throws: whatever the chain-id check and the
\* estimation RPC did, it returned success=true with the bundler's fields, or
\* success=false with an error reason and every gas field zero.
C6_EstimateNeverThrows ==
    op.estimation.done =>
        /\ ~op.estimation.threw
        /\ \/ /\ op.estimation.success
              /\ \E r \in BundlerEstimates : op.estimation = SuccessResult(r)
           \/ /\ ~op.estimation.success
              /\ op.estimation.error # ""
              /\ op.estimation.callGasLimit = 0
              /\ op.estimation.preVerificationGas = 0
              /\ op.estimation.verificationGas = 0
              /\ op.estimation.maxFeePerGas = 0
              /\ op.estimation.maxPriorityFeePerGas = 0

C6_Witness ==
    /\ op.estimation.done
    /\ ~op.estimation.success
    /\ op.estRpc = 0
    /\ initializing = "rejected"
    /\ op.estimation.error = "chainMismatch"

\* C7: a call issues at most one eth_sendUserOperation; when that RPC fails in
\* sendTransaction / sendBatchTransaction it is not sent again and the caller
\* gets the failure.
C7_NoResubmission ==
    /\ op.sendRpc <= 1
    /\ Count("sendRPC") <= 1
    /\ (op.kind \in {"single", "batch"} /\ op.submit = "failed") =>
          /\ op.pc = "done"
          /\ op.result.status = "error"
          /\ op.result.kind = "submission"

C7_Witness ==
    /\ op.kind = "single"
    /\ op.submit = "failed"
    /\ op.sendRpc = 1
    /\ op.result.kind = "submission"

\* C8: whenever the bundler submission of an operation has failed, the public
\* call that triggered it (sendTransaction, sendBatchTransaction, deploy) has
\* not completed with a success result, and completes with an error.
C8_SubmissionFailureIsAnError ==
    op.submit = "failed" =>
        /\ op.result.status # "ok"
        /\ op.pc = "done" => op.result.status = "error"

\* C9: per call the stages run in the order gas stage (estimated or skipped),
\* signing, submission: the signer is invoked only after the gas stage, the
\* submission RPC is issued only after the signer returned the signature it
\* carries, and no stage happens twice.
C9_StageOrder ==
    /\ \A e \in Events : Count(e) <= 1
    /\ Count("gasSkipped") + Count("gasEstimated") <= 1
    /\ op.signCalls = Count("signInvoked")
    /\ op.sendRpc = Count("sendRPC")
    /\ Pos("gasEstimated") > 0 => Before("estimateRPC", "gasEstimated")
    /\ Pos("signInvoked") > 0 =>
          \/ Before("gasSkipped", "signInvoked")
          \/ Before("gasEstimated", "signInvoked")
    /\ Pos("signReturned") > 0 => Before("signInvoked", "signReturned")
    /\ Pos("sendRPC") > 0 =>
          /\ Before("signReturned", "sendRPC")
          /\ op.sig \in SigVals
          /\ op.sentSig = op.sig

C9_Witness ==
    /\ op.trace = <<"estimateRPC", "gasEstimated", "signInvoked",
                    "signReturned", "sendRPC">>
    /\ op.sentSig = "sigB"

\* C10: when the caller supplies a gas limit, no eth_estimateUserOperationGas
\* is issued for the call and the built operation's callGasLimit is the
\* supplied value.
C10_SuppliedGasLimitVerbatim ==
    NotNullish(op.req.gasLimit) =>
        /\ op.estRpc = 0
        /\ op.built => op.callGasLimit = op.req.gasLimit.v

\* C11: every operation the builder hands to eth_estimateUserOperationGas has
\* all its gas fields zero and carries a dummy signature of the size its
\* SignatureMode fixes (65 bytes for EOA, 536 for PASSKEY).
C11_EstimationOpZeroedWithDummySig ==
    (fn.name = "estimationPartialOp" /\ fn.out # <<>>) =>
        /\ fn.out.callGasLimit = 0
        /\ fn.out.verificationGasLimit = 0
        /\ fn.out.maxFeePerGas = 0
        /\ fn.out.maxPriorityFeePerGas = 0
        /\ fn.out.signatureLength = SignatureSizes(fn.in.mode)

\* C17: for every operation and every overhead configuration,
\* calcPreVerificationGas returns at least 49024.
C17_ResultAtLeastMinimum ==
    (fn.name = "calcPreVerificationGas" /\ fn.out # <<>>) => fn.out.result >= 49024

C17_Witness ==
    /\ fn.name = "calcPreVerificationGas"
    /\ fn.out # <<>>
    /\ fn.out.cost < 49024
    /\ fn.out.result = 49024

\* the value the specification's algorithm gives: callDataCost counts zeroByte
\* per zero byte and nonZeroByte per non-zero byte, wordCount is ceil(L / 32)
SpecifiedPreVerificationGas(packed, ov) ==
    LET words == (packed.len + 31) \div 32
        cdc == ov.zeroByte * (packed.len - packed.nonZero)
               + ov.nonZeroByte * packed.nonZero
        n == (cdc + ov.perUserOp + ov.perUserOpWord * words) * ov.bundleSize
             + ov.fixed
        rounded == (2 * n + ov.bundleSize) \div (2 * ov.bundleSize)
    IN IF rounded > 49024 THEN rounded ELSE 49024

\* C18: calcPreVerificationGas equals max(49024, round(callDataCost
\* + fixed/bundleSize + perUserOp + perUserOpWord * ceil(L/32))), L the byte
\* length of the packed operation, callDataCost adding zeroByte per zero byte
\* and nonZeroByte per non-zero byte.
C18_ResultIsSpecifiedFormula ==
    (fn.name = "calcPreVerificationGas" /\ fn.out # <<>>) =>
        fn.out.result = SpecifiedPreVerificationGas(fn.out.packed, fn.in.ov)

\* C19: for two operations alike except that the callData of one extends the
\* callData of the other, under the same overheads, the result for the longer
\* callData is not smaller than the result for the shorter one.
C19_MonotoneInCallDataLength ==
    (fn.name = "calcPreVerificationGasTwice" /\ fn.out # <<>>) =>
        fn.out.long.result >= fn.out.short.result

\* C20: with the default overheads, EOA mode and empty callData the computed
\* cost is below the floor and calcPreVerificationGas returns exactly 49024.
C20_DefaultEmptyCallDataIsFloor ==
    (/\ fn.name = "calcPreVerificationGas"
     /\ fn.out # <<>>
     /\ fn.in.ov = DefaultGasOverheads
     /\ fn.in.userOp.callData.len = 0) =>
        /\ fn.out.cost < 49024
        /\ fn.out.result = 49024


\* C12: once checkAccountPhantom has observed code the phantom flag stays
\* false, no later step issues a getCode query, and every checkAccountPhantom
\* call completing from then on returns false.
C12_PhantomFlagClearedForGood ==
    [][~isPhantom =>
         /\ ~isPhantom'
         /\ rcall'.getCodeQueries = rcall.getCodeQueries
         /\ (rcall.pc # "idle" /\ rcall'.pc = "idle"
                /\ rcall'.call = "checkAccountPhantom")
              => rcall'.ret = ResolvedWith(<<"false">>)]_vars

C12_Witness ==
    /\ ~isPhantom
    /\ rcall.clearedAtStart
    /\ rcall.call = "checkAccountPhantom"
    /\ rcall.pc = "idle"
    /\ rcall.ret = ResolvedWith(<<"false">>)
    /\ rcall.getCodeQueries = 1

\* C13 (as stated): the oracle is queried at most once, only by the first
\* address resolution, never when an address was configured, and all
\* returned addresses are equal.
C13_OracleQueriedAtMostOnce ==
    /\ rcall.oracleQueries <= 1
    /\ rcall.oracleQueries > 0 => accountAddress = Null
    /\ Cardinality(rcall.returned) <= 1

\* C13 (amended): once a getAccountAddress call has returned an address the
\* oracle is not queried again, it is never queried when an address was
\* configured, and all returned addresses are equal.
C13_NoOracleQueryAfterAddressReturned ==
    [][/\ rcall'.oracleQueries > rcall.oracleQueries =>
            (rcall.returned = {} /\ accountAddress = Null)
       /\ Cardinality(rcall'.returned) <= 1]_vars

C13_Witness ==
    /\ rcall.oracleQueries = 2
    /\ rcall.calls = 3
    /\ rcall.call = "getAccountAddress"
    /\ rcall.pc = "idle"
    /\ rcall.ret.kind = "value"
    /\ rcall.returned = {senderAddress}

\* C14: a getInitCode call that meets no network failure returns '0x' when
\* the account is not phantom (factory or not); when phantom it returns the
\* factory address followed by the createAccount call for the owner's kind
\* if a factory is configured, and fails with a configuration error if not.
C14_InitCodeByPhantomAndFactory ==
    (rcall.call = "getInitCode" /\ rcall.pc = "idle" /\ ~rcall.netFailed) =>
        IF ~isPhantom THEN rcall.ret = ResolvedWith(<<>>)
        ELSE IF factoryAddress = Null
          THEN /\ rcall.ret.kind = "error"
               /\ rcall.ret.val = <<"config", "No factory to get initCode">>
        ELSE /\ rcall.ret.kind = "value"
             /\ rcall.ret.val =
                  IF rcall.owner = "passkey"
                    THEN <<FactoryAddr, "createAccount", "AddressZero",
                           "publicKey.x", "publicKey.y", "index">>
                    ELSE <<FactoryAddr, "createAccount", "ownerAddress",
                           "HashZero", "HashZero", "index">>

C14_Witness ==
    /\ rcall.call = "getInitCode"
    /\ rcall.pc = "idle"
    /\ isPhantom
    /\ rcall.owner = "passkey"
    /\ rcall.ret.kind = "value"
    /\ Len(rcall.ret.val) = 6


C16_ReturnedOperationIsSigned ==
    (op.kind = "batchApi" /\ op.pc = "done" /\ op.result.status = "ok") =>
        op.sig \in SigVals


\* C19 (amended): when a non-zero byte is charged at least what a zero byte
\* is charged and the packed form of the operation with the longer callData
\* has no fewer non-zero bytes, the result for the longer callData is not
\* smaller than the result for the shorter one.
C19_MonotoneUnlessNonZeroBytesDrop ==
    (/\ fn.name = "calcPreVerificationGasTwice"
     /\ fn.out # <<>>
     /\ fn.in.ov.zeroByte % 256 <= fn.in.ov.nonZeroByte % 256
     /\ fn.out.long.packed.nonZero >= fn.out.short.packed.nonZero) =>
        fn.out.long.result >= fn.out.short.result

C19_Witness ==
    /\ fn.name = "calcPreVerificationGasTwice"
    /\ fn.out # <<>>
    /\ fn.in.ov = DefaultGasOverheads
    /\ fn.in.userOp.callData = Bytes(511, 511)
    /\ fn.in.ext = Bytes(1, 1)
    /\ fn.out.long.packed.nonZero = fn.out.short.packed.nonZero
    /\ fn.out.long.result = fn.out.short.result
    /\ fn.out.short.result > 49024

\* C20 (amended): with the default overheads, EOA mode and empty callData the
\* computed cost is above the floor and calcPreVerificationGas returns the
\* computed cost.
C20_DefaultEmptyCallDataAboveFloor ==
    (/\ fn.name = "calcPreVerificationGas"
     /\ fn.out # <<>>
     /\ fn.in.ov = DefaultGasOverheads
     /\ fn.in.userOp.callData.len = 0) =>
        /\ fn.out.cost > 49024
        /\ fn.out.result = fn.out.cost

C20_Witness ==
    /\ fn.name = "calcPreVerificationGas"
    /\ fn.out # <<>>
    /\ fn.in.ov = DefaultGasOverheads
    /\ fn.in.userOp.callData.len = 0
    /\ fn.in.userOp.nonce = 0
    /\ fn.out.packed.len = 576
    /\ fn.out.result = fn.out.cost


\* C21 (as stated): for every operation the packed signature is 65 bytes for
\* an owner without public-key coordinates and 536 bytes for one with them.
C21_PackedSignatureSizedByOwner ==
    (fn.name = "getPreVerificationGas" /\ fn.out # <<>>) =>
        fn.out.signatureLength = IF fn.in.owner = "passkey" THEN 536 ELSE 65

\* C21 (amended): the same, for every operation that carries no signature of
\* its own.
C21_DummySignatureSizedByOwner ==
    (fn.name = "getPreVerificationGas" /\ fn.out # <<>>
       /\ ~fn.in.supplied.present) =>
        fn.out.signatureLength = IF fn.in.owner = "passkey" THEN 536 ELSE 65

C21_Witness ==
    /\ fn.name = "getPreVerificationGas"
    /\ fn.out # <<>>
    /\ ~fn.in.supplied.present
    /\ fn.in.owner = "passkey"
    /\ fn.in.overheads.signatureMode = "EOA"
    /\ fn.out.signatureLength = 536


\* C22: for the DER encoding of any r and s without a leading zero byte,
\* parseDerSignature returns exactly those r and s bytes, and encoding the
\* parsed pair again gives the array that was parsed.
C22_ParseReturnsEncodedIntegers ==
    (fn.name = "parseDerSignature" /\ fn.out # <<>>) =>
        \A r \in DerIntegers, s \in DerIntegers :
            (r[1] # 0 /\ s[1] # 0 /\ fn.in = EncodeDer(r, s)) =>
                /\ fn.out.ok
                /\ fn.out.r = r
                /\ fn.out.s = s
                /\ EncodeDer(fn.out.r, fn.out.s) = fn.in

C22_Witness ==
    /\ fn.name = "parseDerSignature"
    /\ fn.out # <<>>
    /\ fn.in = EncodeDer(<<128, 0>>, <<1>>)
    /\ fn.out.r = <<128, 0>>
    /\ fn.out.s = <<1>>


\* a byte array that is exactly SEQUENCE { INTEGER r, INTEGER s } with
\* non-empty r and s
WellFormedDer(der) ==
    /\ Len(der) >= 8
    /\ der[1] = 48
    /\ der[2] = Len(der) - 2
    /\ der[3] = 2
    /\ der[4] >= 1
    /\ der[4] + 7 <= Len(der)
    /\ der[5 + der[4]] = 2
    /\ der[6 + der[4]] >= 1
    /\ 6 + der[4] + der[6 + der[4]] = Len(der)

\* C23: signMessage fails, returning no signature, whenever the credential
\* interface rejects the assertion, the DER signature is malformed, or the
\* client data lacks the challenge property or the response type.
C23_SignMessageFailsOnBadAssertion ==
    (/\ fn.name = "signMessage"
     /\ fn.out # <<>>
     /\ \/ fn.in.outcome # "returned"
        \/ ~WellFormedDer(fn.in.der)
        \/ Positions(fn.in.clientData, ChallengeProperty) = {}
        \/ Positions(fn.in.clientData, ResponseType) = {}) =>
        ~fn.out.ok


\* C24: public-key extraction fails when the attested-credential-data flag
\* is absent or a coordinate is missing; otherwise x and y are each exactly
\* 32 bytes, the raw coordinate left-padded with zero bytes when shorter.
C24_CoordinatesAre32Bytes ==
    (fn.name = "fromAttetationObject" /\ fn.out # <<>>) =>
        IF \/ fn.in.flags < 0
           \/ (fn.in.flags \div 64) % 2 = 0
           \/ ~fn.in.x.present
           \/ ~fn.in.y.present
          THEN ~fn.out.ok
        ELSE /\ fn.out.ok
             /\ Len(fn.out.x) = 32
             /\ Len(fn.out.y) = 32
             /\ SubSeq(fn.out.x, 33 - Len(fn.in.x.bytes), 32) = fn.in.x.bytes
             /\ SubSeq(fn.out.y, 33 - Len(fn.in.y.bytes), 32) = fn.in.y.bytes
             /\ \A i \in 1..(32 - Len(fn.in.x.bytes)) : fn.out.x[i] = 0
             /\ \A i \in 1..(32 - Len(fn.in.y.bytes)) : fn.out.y[i] = 0


\* C25: predictAddress calls computeAddress for the requested bytecode and
\* salt only after the deployer address was found to have code and answered
\* the smoke-test computeAddress call; when either check fails it fails with
\* INVALID_DEPLOYER and returns no address.
C25_PredictOnlyAfterVerification ==
    (fn.name = "predictAddress" /\ fn.out # <<>>
       /\ ~(fn.in.bytecode = "" \/ fn.in.bytecode = "1234")) =>
      LET calls == fn.out.calls
          requested == {i \in 4..Len(calls) : calls[i].call = "computeAddress"}
          checked == /\ Len(calls) >= 3
                     /\ calls[2].call = "getCode"
                     /\ fn.in.env.code \notin {"0x", "error"}
                     /\ calls[3].call = "computeAddress"
                     /\ calls[3].args = <<"keccak256", "0x1234", DefaultSalt, Addr>>
                     /\ fn.in.env.smokeTest = "ok"
      IN /\ requested # {} => checked
         /\ \A i \in requested :
              calls[i].args = <<"keccak256", fn.in.bytecode,
                                IF fn.in.salt = "undefined" THEN DefaultSalt
                                ELSE fn.in.salt, Addr>>
         /\ fn.out.result.status = "ok" => requested # {}
         /\ (/\ fn.in.env.network = "ok"
             /\ \/ fn.in.env.code = "0x"
                \/ fn.in.env.code # "error" /\ fn.in.env.smokeTest = "revert")
            => /\ fn.out.result.status = "error"
               /\ fn.out.result.kind = "INVALID_DEPLOYER"
               /\ requested = {}
C25_Witness ==
    /\ fn.name = "predictAddress" /\ fn.out # <<>>
    /\ fn.out.result.status = "ok"
    /\ Len(fn.out.calls) = 5
    /\ fn.in.bytecode = "0x" /\ fn.in.salt # "undefined"

\* C26: deploy, predictAddress and estimateGas fail with INVALID_BYTECODE
\* when the bytecode is empty or lacks the '0x' prefix, before any
\* UserOperation is constructed and before any network call.
C26_InvalidBytecodeFailsFast ==
    (fn.name \in {"predictAddress", "deploy", "estimateGas"} /\ fn.out # <<>>
       /\ (fn.in.bytecode = "" \/ fn.in.bytecode = "1234")) =>
      /\ fn.out.result.status = "error"
      /\ fn.out.result.kind = "INVALID_BYTECODE"
      /\ fn.out.calls = <<>>
      /\ fn.out.userOps = 0
C26_Witness ==
    /\ fn.name = "deploy" /\ fn.out # <<>>
    /\ fn.in.bytecode = "1234"
    /\ fn.in.env.accountApi = "ok" /\ fn.in.env.network = "ok"
    /\ fn.out.result.kind = "INVALID_BYTECODE"

\* C27: with no salt, deploy and predictAddress use the fixed salt 0x00..01
\* and behave exactly as with that salt passed explicitly: the same calls
\* (the same deploy(bytecode, salt) call data, the same computeAddress
\* arguments, hence the same predicted address) and the same completion.
C27_NoSaltIsDefaultSalt ==
    (fn.name \in {"predictAddress", "deploy"} /\ fn.out # <<>>
       /\ fn.in.salt = "undefined") =>
      LET explicit == [fn.in EXCEPT !.salt =
             "0x0000000000000000000000000000000000000000000000000000000000000001"]
          calls == fn.out.calls
      IN /\ fn.out = IF fn.name = "deploy"
                       THEN DeployOrEstimate("createSignedUserOp", explicit)
                     ELSE PredictAddress(explicit)
         /\ \A i \in 1..Len(calls) :
              /\ calls[i].call = "createSignedUserOp" =>
                   calls[i].args[2] = <<"deploy", fn.in.bytecode, explicit.salt>>
              /\ (calls[i].call = "computeAddress" /\ i > 3) =>
                   calls[i].args = <<"keccak256", fn.in.bytecode, explicit.salt, Addr>>
C27_Witness ==
    /\ fn.name = "deploy" /\ fn.out # <<>>
    /\ fn.in.salt = "undefined"
    /\ fn.out.userOps = 1


\* C29: in every operation built without a caller-supplied nonce, initCode
\* and nonce reflect one deployment status: initCode is non-empty only if
\* the nonce is 0 (phantom account), and initCode is empty whenever the
\* nonce was read from the deployed account contract.
C29_InitCodeAndNonceAgree ==
    op.built =>
        /\ op.initCode # "0x" => op.nonce = "zero"
        /\ op.nonce = "chain" => op.initCode = "0x"


\* C30: for an EOA identity the signature attached to a signed operation
\* has exactly the byte length (65) of the dummy signature used to compute
\* the operation's preVerificationGas.
C30_EoaSignatureMatchesDummy ==
    (fn.name = "signUserOpHash" /\ fn.out # <<>> /\ fn.in.owner = "eoa") =>
        /\ fn.out.length = 65
        /\ fn.out.length = DummySignature(GetSignatureMode(fn.in.owner)).len


\* C28: the builder does not serialize sends. A send that reads the nonce
\* while another send's operation carrying the account's current nonce is
\* built or submitted but not yet included gets that same nonce.
C28_SendsShareNonce ==
    [][\A s, t \in 1..MaxSends :
         (/\ s # t
          /\ sends.proc[s].pc = "fillNonce"
          /\ sends'.proc[s].pc = "send"
          /\ sends.proc[t].pc \in {"send", "submitted"}
          /\ sends.proc[t].nonce = sends.accountNonce)
         => sends'.proc[s].nonce = sends.proc[t].nonce]_vars
C28_Witness ==
    /\ sends.proc[1].pc = "submitted" /\ sends.proc[2].pc = "submitted"
    /\ sends.proc[1].overlapped /\ sends.proc[2].overlapped
    /\ sends.proc[1].nonce = sends.proc[2].nonce
    /\ Len(sends.pool) = 2
    /\ sends.pool[1] = sends.pool[2]
    /\ deployed /\ sends.accountNonce = sends.proc[1].nonce

====
